---- MODULE Spec2Model ----
(***************************************************************************)
(* A model of the Slack notification bot of jenkins-x/slack                *)
(* (pkg/slackbot): the message reference store o.Timestamps, the two       *)
(* flows PipelineMessage and ReviewRequestMessage, and postMessage, which  *)
(* decides between creating a message, updating one and skipping.          *)
(*                                                                         *)
(* Strings the code parses (branch names, build identifiers) are tuples of *)
(* one-character strings, so that ToLower, HasPrefix, TrimPrefix and Atoi  *)
(* are computed as the code computes them; so are channels and user ids,   *)
(* for channelName.  Activity names, owners, repositories and labels are   *)
(* TLA+ strings.  Times are in hours since the epoch, -1 for a nil time.   *)
(***************************************************************************)
EXTENDS Integers, Sequences, FiniteSets, TLC

VARIABLES
    Timestamps,   \* o.Timestamps: destination -> (activity name -> MessageReference)
    config,       \* the SlackBotOptions fields Pipelines, PullRequests, Statuses
    known,        \* the activity provider: names of the pipeline activities it lists
    messages,     \* the sink: the messages created so far
    nextTs,       \* the sink: the timestamp the next created message gets
    last,         \* what the last handler invocation was given and did
    procs         \* the goroutines running postMessage concurrently

vars == <<Timestamps, config, known, messages, nextTs, last, procs>>

----------------------------------------------------------------------------
(* Bounds of the model. *)

\* an invocation starts only while the sink has created at most this many
\* messages; updates and skipped posts are not bounded
MaxMessages == 3

\* the longest branch name getPullRequestNumber is applied to
MaxBranchLen == 5

----------------------------------------------------------------------------
(* Strings as tuples of characters. *)

Digits == <<"0", "1", "2", "3", "4", "5", "6", "7", "8", "9">>

IsDigit(c) == \E i \in 1..10 : Digits[i] = c

DigitVal(c) == (CHOOSE i \in 1..10 : Digits[i] = c) - 1

\* strings.ToLower, on the letters the model's branch names use
LowerChar(c) ==
    CASE c = "P" -> "p"
      [] c = "R" -> "r"
      [] c = "M" -> "m"
      [] OTHER -> c

\* a variant of ToLower: the letters are left in their case
ToLowerNone(s) == s

ToLower(s) == [i \in 1..Len(s) |-> LowerChar(s[i])]

HasPrefix(s, p) == Len(s) >= Len(p) /\ SubSeq(s, 1, Len(p)) = p

\* called on strings that have the prefix only
TrimPrefix(s, p) == IF HasPrefix(s, p) THEN SubSeq(s, Len(p) + 1, Len(s)) ELSE s

RECURSIVE DigitsValue(_)
DigitsValue(s) ==
    IF s = <<>> THEN 0
    ELSE 10 * DigitsValue(SubSeq(s, 1, Len(s) - 1)) + DigitVal(s[Len(s)])

\* strconv.Atoi: an optional sign, then one or more decimal digits; anything
\* else is a syntax error, with value 0
Atoi(s) ==
    LET signed == s # <<>> /\ s[1] \in {"+", "-"}
        body   == IF signed THEN Tail(s) ELSE s
    IN  IF body = <<>> \/ \E i \in 1..Len(body) : ~IsDigit(body[i])
        THEN [val |-> 0, err |-> TRUE]
        ELSE [val |-> IF signed /\ s[1] = "-" THEN 0 - DigitsValue(body)
                      ELSE DigitsValue(body),
              err |-> FALSE]

\* the element of index 2 of strings.Split(owner + "/" + repo + "/" + branch, "/"),
\* for an owner and a repo without "/": the branch up to its first "/"
RECURSIVE UpToSlash(_)
UpToSlash(s) ==
    IF s = <<>> \/ s[1] = "/" THEN <<>> ELSE <<s[1]>> \o UpToSlash(Tail(s))

PrPrefix == <<"p", "r", "-">>

MasterBranch == <<"m", "a", "s", "t", "e", "r">>

createPipelineDetails(activity) ==
    LET branchName == UpToSlash(activity.Branch)
    IN  [GitOwner      |-> activity.Owner,
         GitRepository |-> activity.Repo,
         BranchName    |-> IF branchName = <<>> THEN MasterBranch ELSE branchName,
         Build         |-> activity.BuildIdentifier]

getPullRequestNumber(activity) ==
    LET branch == ToLower(createPipelineDetails(activity).BranchName)
    IN  IF HasPrefix(branch, PrPrefix)
        THEN Atoi(TrimPrefix(branch, PrPrefix))
        ELSE [val |-> 0, err |-> FALSE]

----------------------------------------------------------------------------
(* Values. *)

\* the nil *MessageReference; a Timestamp of 0 stands for the empty string
NilRef == [ChannelID |-> <<>>, Timestamp |-> 0]

\* the nil *gits.GitPullRequest
NilPR ==
    [nil |-> TRUE, Labels |-> <<>>, Merged |-> "nil", Closed |-> FALSE,
     Author |-> "", RequestedReviewers |-> <<>>, UpdatedAt |-> -1]

\* a nil *slackapp.Status
NilStatus == [kind |-> "", from |-> "nil"]

\* defaultStatuses: a status is identified by its kind and by the table it is
\* an entry of, as the code compares statuses by pointer
defaultStatuses == [k \in {"Merged", "Closed", "Aborted", "Errored", "Failed",
                           "Approved", "NotApproved", "NeedsOkToTest", "Hold",
                           "Pending", "Running", "Succeeded", "LGTM", "Unknown"}
                    |-> [kind |-> k, from |-> "default"]]

\* o.Statuses.<kind>, for the set of kinds the configuration overrides
StatusesOf(overridden) ==
    [k \in DOMAIN defaultStatuses |->
        IF k \in overridden THEN [kind |-> k, from |-> "override"] ELSE NilStatus]

\* a variant of getStatus: the override is not consulted
getStatusDefault(overrideStatus, defaultStatus) == defaultStatus

getStatus(overrideStatus, defaultStatus) ==
    IF overrideStatus = NilStatus THEN defaultStatus ELSE overrideStatus

channelName(channel) ==
    IF ~HasPrefix(channel, <<"#">>) THEN <<"#">> \o channel ELSE channel

----------------------------------------------------------------------------
(* The message sink (the Slack client). *)

\* the conversation OpenConversation returns for a user: one per user
ConversationID(user) == <<"D">> \o Tail(user)

\* the channel id SendMessageContext returns: the id of a channel addressed
\* by name, the id itself otherwise
SinkChannelID(channel) ==
    IF HasPrefix(channel, <<"#">>) THEN <<"C">> \o Tail(channel) ELSE channel

\* the reply of SendMessageContext: a new message gets the next timestamp, an
\* updated message keeps its own
SendMessageContext(channelId, timestamp, next) ==
    [ChannelID |-> SinkChannelID(channelId),
     Timestamp |-> IF timestamp # 0 THEN timestamp ELSE next]

\* one external call, as the invocation's trace records it
Call(op, channel, update, key, messageType, attachments) ==
    [op |-> op, channel |-> channel, update |-> update, key |-> key,
     messageType |-> messageType, attachments |-> attachments]

NoAttachments == [kind |-> "", Color |-> "", Ts |-> -1,
                  review |-> NilStatus, build |-> NilStatus]

ProviderCall(op) == Call(op, <<>>, 0, "", "", NoAttachments)

\* the collaborator that fails during the invocation: a provider (by its
\* operation), or the sink for one operation on one destination
NoFailure == [op |-> "", channel |-> <<>>]

Fails(fail, op, channel) == fail.op = op /\ fail.channel = channel

----------------------------------------------------------------------------
(* The message reference store and postMessage. *)

HasRef(ts, channel, key) == channel \in DOMAIN ts /\ key \in DOMAIN ts[channel]

Lookup(ts, channel, key) == IF HasRef(ts, channel, key) THEN ts[channel][key] ELSE NilRef

\* a variant of Record: the reference is stored under the channel id the sink
\* returned, not under the destination it is looked up with
RecordUnderChannelID(ts, channel, key, ref) ==
    LET inner == IF ref.ChannelID \in DOMAIN ts THEN ts[ref.ChannelID] ELSE <<>>
    IN  [d \in DOMAIN ts \cup {ref.ChannelID} |->
            IF d = ref.ChannelID
            THEN [k \in DOMAIN inner \cup {key} |-> IF k = key THEN ref ELSE inner[k]]
            ELSE ts[d]]

\* a variant of Record: the reference of a direct message is stored under
\* the conversation the sink opened, that of a channel message under the
\* channel
RecordUnderConversation(ts, channel, key, ref) ==
    LET dest  == IF HasPrefix(ref.ChannelID, <<"D">>) THEN ref.ChannelID ELSE channel
        inner == IF dest \in DOMAIN ts THEN ts[dest] ELSE <<>>
    IN  [d \in DOMAIN ts \cup {dest} |->
            IF d = dest
            THEN [k \in DOMAIN inner \cup {key} |-> IF k = key THEN ref ELSE inner[k]]
            ELSE ts[d]]

\* o.Timestamps[channel][key] = ref
Record(ts, channel, key, ref) ==
    LET inner == IF channel \in DOMAIN ts THEN ts[channel] ELSE <<>>
    IN  [d \in DOMAIN ts \cup {channel} |->
            IF d = channel
            THEN [k \in DOMAIN inner \cup {key} |-> IF k = key THEN ref ELSE inner[k]]
            ELSE ts[d]]

\* a variant of EnsureChannel: the destination's map is made anew without the
\* test that it is missing
EnsureChannelAnew(ts, channel) ==
    [d \in DOMAIN ts \cup {channel} |-> IF d = channel THEN <<>> ELSE ts[d]]

\* if _, ok := o.Timestamps[channel]; !ok { o.Timestamps[channel] = make(...) }
EnsureChannel(ts, channel) ==
    IF channel \in DOMAIN ts THEN ts
    ELSE [d \in DOMAIN ts \cup {channel} |-> IF d = channel THEN <<>> ELSE ts[d]]

\* a variant of TargetChannel: the stored channel id is not taken up
TargetChannelAsGiven(channel, directMessage, messageRef) ==
    IF directMessage THEN ConversationID(channel) ELSE channel

\* the channel id the message call is addressed to
TargetChannel(channel, directMessage, messageRef) ==
    IF directMessage THEN ConversationID(channel)
    ELSE IF messageRef # NilRef THEN messageRef.ChannelID ELSE channel

\* a variant of ShouldPost: createIfMissing is not consulted
ShouldPostAlways(timestamp, createIfMissing) == TRUE

\* post := timestamp != "" || createIfMissing
ShouldPost(timestamp, createIfMissing) == timestamp # 0 \/ createIfMissing

\* rs is the state of the running invocation: the store, the sink, the trace
\* of external calls, the postMessage calls made and the error returned
postMessage(rs, fail, channel, directMessage, messageType, activity, attachments, createIfMissing) ==
    LET key        == activity.Name
        messageRef == Lookup(rs.Timestamps, channel, key)
        timestamp  == messageRef.Timestamp
        ensured    == EnsureChannel(rs.Timestamps, channel)
        openFails  == directMessage /\ Fails(fail, "open", channel)
        trace1     == IF directMessage
                      THEN Append(rs.trace, Call("open", channel, 0, key, messageType,
                                                 NoAttachments))
                      ELSE rs.trace
        channelId  == TargetChannel(channel, directMessage, messageRef)
        post       == ShouldPost(timestamp, createIfMissing)
        sendFails  == Fails(fail, "send", channel)
        trace2     == IF post /\ ~openFails
                      THEN Append(trace1, Call("send", channelId, timestamp, key,
                                               messageType, attachments))
                      ELSE trace1
        reply      == SendMessageContext(channelId, timestamp, rs.nextTs)
        outcome    == IF openFails THEN "open failed"
                      ELSE IF ~post THEN "skip"
                      ELSE IF sendFails THEN "send failed"
                      ELSE IF timestamp # 0 THEN "update" ELSE "create"
        after      == IF openFails \/ ~post \/ sendFails THEN ensured
                      ELSE Record(ensured, channel, key, reply)
        thePost    == [channel |-> channel, directMessage |-> directMessage,
                       messageType |-> messageType, key |-> key,
                       createIfMissing |-> createIfMissing, ref |-> messageRef,
                       outcome |-> outcome, attachments |-> attachments,
                       calls |-> SubSeq(trace2, Len(rs.trace) + 1, Len(trace2)),
                       reply |-> IF outcome \in {"create", "update"} THEN reply
                                 ELSE NilRef,
                       before |-> rs.Timestamps, after |-> after]
        created    == outcome = "create"
    IN  [rs EXCEPT !.Timestamps = after,
                   !.trace = trace2,
                   !.posts = Append(@, thePost),
                   !.err = IF openFails \/ (post /\ sendFails) THEN "sink" ELSE @,
                   !.messages = IF created
                                THEN @ \cup {[channel |-> channel, key |-> key,
                                              messageType |-> messageType,
                                              ChannelID |-> reply.ChannelID,
                                              Timestamp |-> reply.Timestamp]}
                                ELSE @,
                   !.nextTs = IF created THEN @ + 1 ELSE @]

----------------------------------------------------------------------------
(* The eligibility gate. *)

InSeq(x, seq) == \E i \in 1..Len(seq) : seq[i] = x

\* a variant of OrgsAllow: the repositories of an organisation are not
\* looked at
OrgsAllowOwnerOnly(activity, orgs) ==
    Len(orgs) > 0 => \E i \in 1..Len(orgs) : orgs[i].Name = activity.Owner

\* the allow-list of isEnabled
OrgsAllow(activity, orgs) ==
    Len(orgs) > 0 =>
        \E i \in 1..Len(orgs) :
            /\ orgs[i].Name = activity.Owner
            /\ (Len(orgs[i].Repos) = 0 \/ InSeq(activity.Repo, orgs[i].Repos))

\* whether getPullRequest asks the git provider: prn > 0 (a branch whose
\* number does not parse gives prn = 0 and is not asked about)
IsPullRequest(activity) == getPullRequestNumber(activity).val > 0

\* a variant of IgnoredLabels: no label of the pull request is found
IgnoredLabelsNone(pr, ignoreLabels) == {}

\* the labels of ignoreLabels the pull request carries
IgnoredLabels(pr, ignoreLabels) ==
    {l \in {ignoreLabels[i] : i \in 1..Len(ignoreLabels)} : InSeq(l, pr.Labels)}

\* getPullRequest: env.pr is what the git provider answers
getPullRequest(rs, activity, env) ==
    IF ~IsPullRequest(activity)
    THEN [pr |-> NilPR, err |-> "", rs |-> rs]
    ELSE IF activity.GitURL = ""
    THEN [pr |-> NilPR, err |-> "no GitURL", rs |-> rs]
    ELSE LET rs1 == [rs EXCEPT !.trace = Append(@, ProviderCall("getPullRequest"))]
         IN  IF Fails(env.fail, "getPullRequest", <<>>)
             THEN [pr |-> NilPR, err |-> "provider", rs |-> rs1]
             ELSE [pr |-> env.pr, err |-> "", rs |-> rs1]

\* isEnabled: a nil pull request under a non-empty ignore list is a nil
\* dereference (pr.Labels), which panics
isEnabled(rs, activity, orgs, ignoreLabels, env) ==
    IF ~OrgsAllow(activity, orgs)
    THEN [enabled |-> FALSE, pr |-> NilPR, err |-> "", rs |-> rs]
    ELSE LET got == getPullRequest(rs, activity, env)
         IN  IF got.err # ""
             THEN [enabled |-> FALSE, pr |-> NilPR, err |-> got.err, rs |-> got.rs]
             ELSE IF Len(ignoreLabels) > 0 /\ got.pr.nil
             THEN [enabled |-> FALSE, pr |-> NilPR, err |-> "panic", rs |-> got.rs]
             ELSE IF Len(ignoreLabels) > 0 /\ IgnoredLabels(got.pr, ignoreLabels) # {}
             THEN [enabled |-> FALSE, pr |-> NilPR, err |-> "", rs |-> got.rs]
             ELSE [enabled |-> TRUE, pr |-> got.pr, err |-> "", rs |-> got.rs]

----------------------------------------------------------------------------
(* The pipeline message. *)

\* the hours of time.Duration(24 * time.Hour)
DayHours == 24

Max2(a, b) == IF a > b THEN a ELSE b

getLastUpdatedTime(pr, activity) ==
    LET t0 == IF ~pr.nil /\ pr.UpdatedAt # -1 THEN pr.UpdatedAt ELSE -1
        t1 == IF activity.StartTime # -1 THEN Max2(t0, activity.StartTime) ELSE t0
    IN  IF activity.CompletionTime # -1 THEN Max2(t1, activity.CompletionTime) ELSE t1

attachmentColor(statusType) ==
    CASE statusType = "failure" -> "danger"
      [] statusType = "success" -> "good"
      [] statusType \in {"running", "pending"} -> "#3AA3E3"
      [] OTHER -> ""

\* only a successful activity returns its own status; every other one
\* (the case of aborted and failure is empty) takes its last stage's
pipelineStatus(activity) ==
    IF activity.Status = "success" THEN activity.Status
    ELSE IF Len(activity.Stages) > 0 THEN activity.Stages[Len(activity.Stages)].Status
    ELSE activity.Status

\* pipelineName and the pull request number both fail exactly when the
\* number of a pr- branch does not parse
createPipelineMessage(activity, pr, now) ==
    LET status          == pipelineStatus(activity)
        lastUpdatedTime == getLastUpdatedTime(NilPR, activity)
        dayAgo          == now - DayHours
    IN  IF getPullRequestNumber(activity).err
        THEN [attachments |-> NoAttachments, createIfMissing |-> FALSE, err |-> "render"]
        ELSE [attachments |-> [kind |-> "pipeline", Color |-> attachmentColor(status),
                               Ts |-> IF lastUpdatedTime > 0 THEN lastUpdatedTime ELSE -1,
                               review |-> NilStatus, build |-> NilStatus],
              createIfMissing |-> ~(lastUpdatedTime < dayAgo),
              err |-> ""]

\* resolveGitUserToSlackUser: env.slackId is the chat identity the resolvers
\* give for the git user, <<>> for none
resolveGitUserToSlackUser(rs, user, env) ==
    LET rs1 == [rs EXCEPT !.trace = Append(@, ProviderCall("resolve"))]
    IN  IF Fails(env.fail, "resolve", <<>>)
        THEN [id |-> <<>>, err |-> "provider", rs |-> rs1]
        ELSE [id |-> env.slackId[user], err |-> "", rs |-> rs1]

\* the body of the loop of PipelineMessage, for one rule
PipelineRule(rs, cfg, activity, env) ==
    LET en == isEnabled(rs, activity, cfg.Orgs, cfg.IgnoreLabels, env)
        m  == createPipelineMessage(activity, en.pr, env.now)
        r1 == IF cfg.Channel # <<>>
              THEN postMessage(en.rs, env.fail, channelName(cfg.Channel), FALSE,
                               "pipeline", activity, m.attachments, m.createIfMissing)
              ELSE en.rs
        id == resolveGitUserToSlackUser(r1, en.pr.Author, env)
    IN  IF en.err # "" THEN [en.rs EXCEPT !.err = en.err]
        ELSE IF ~en.enabled THEN en.rs
        ELSE IF m.err # "" THEN [en.rs EXCEPT !.err = m.err]
        ELSE IF r1.err # "" THEN r1
        ELSE IF ~(cfg.DirectMessage /\ ~en.pr.nil) THEN r1
        ELSE IF id.err # "" THEN [id.rs EXCEPT !.err = id.err]
        ELSE IF id.id = <<>> THEN id.rs
        ELSE postMessage(id.rs, env.fail, id.id, TRUE, "pipeline", activity,
                         m.attachments, m.createIfMissing)

\* the loop over o.Pipelines, from rule i on: the first error returns
RECURSIVE PipelineRules(_, _, _, _, _)
PipelineRules(rs, rules, i, activity, env) ==
    IF i > Len(rules) \/ rs.err # "" THEN rs
    ELSE PipelineRules(PipelineRule(rs, rules[i], activity, env), rules, i + 1,
                       activity, env)

\* a variant of PipelineMessageRun: the name of the activity is not looked at
PipelineMessageRunUnchecked(rs, activity, env, cfg) ==
    PipelineRules(rs, cfg.Pipelines, 1, activity, env)

PipelineMessageRun(rs, activity, env, cfg) ==
    IF activity.Name = "" THEN [rs EXCEPT !.err = "name"]
    ELSE PipelineRules(rs, cfg.Pipelines, 1, activity, env)

----------------------------------------------------------------------------
(* The pull request thread and the review message. *)

BuildNumber(activity) == Atoi(createPipelineDetails(activity).Build).val

\* getPipelineActivities: the activities the provider lists for the owner,
\* the repository and the pull request, in the provider's order
getPipelineActivities(items, owner, repo, prn) ==
    SelectSeq(items, LAMBDA a : /\ a.Owner = owner
                                /\ a.Repo = repo
                                /\ getPullRequestNumber(a).val = prn)

\* sort.Sort(byBuildNumber(items)) on a list that sort.Sort sorts by
\* insertion: ascending by build number, equal elements in their order
RECURSIVE InsertByBuildNumber(_, _)
InsertByBuildNumber(sorted, a) ==
    IF sorted = <<>> THEN <<a>>
    ELSE IF BuildNumber(a) < BuildNumber(Head(sorted)) THEN <<a>> \o sorted
    ELSE <<Head(sorted)>> \o InsertByBuildNumber(Tail(sorted), a)

RECURSIVE byBuildNumber(_)
byBuildNumber(items) ==
    IF items = <<>> THEN <<>>
    ELSE InsertByBuildNumber(byBuildNumber(SubSeq(items, 1, Len(items) - 1)),
                             items[Len(items)])

\* the longest list sort.Sort does not partition; the lists of the model
\* are of up to three elements, sorted by insertion alone, or longer than this
maxInsertion == 12

SwapAt(seq, i) ==
    [j \in 1..Len(seq) |-> IF j = i THEN seq[i + 1] ELSE IF j = i + 1 THEN seq[i] ELSE seq[j]]

\* the outcomes of sort.Sort(byBuildNumber(items)): sort.Sort is not stable,
\* and on a longer list two neighbours of equal build number can come out in
\* either order
sortSort(items) ==
    LET stable == byBuildNumber(items)
    IN  IF Len(items) <= maxInsertion THEN {stable}
        ELSE {stable} \cup
             {SwapAt(stable, i) :
                 i \in {j \in 1..(Len(stable) - 1) :
                           BuildNumber(stable[j]) = BuildNumber(stable[j + 1])}}

\* findPipelineActivities: found is FALSE for the nil results; the lists of
\* the handlers' provider are short and of distinct build numbers, for which
\* sortSort has the one outcome byBuildNumber
findPipelineActivities(rs, activity, items, env) ==
    LET prn     == getPullRequestNumber(activity)
        details == createPipelineDetails(activity)
        rs1     == [rs EXCEPT !.trace = Append(@, ProviderCall("activities"))]
        records == byBuildNumber(getPipelineActivities(items, details.GitOwner,
                                                       details.GitRepository, prn.val))
    IN  IF prn.err THEN [found |-> FALSE, all |-> <<>>, err |-> "prn", rs |-> rs]
        ELSE IF Fails(env.fail, "activities", <<>>)
        THEN [found |-> FALSE, all |-> <<>>, err |-> "provider", rs |-> rs1]
        ELSE [found |-> Len(records) > 0, all |-> records, err |-> "", rs |-> rs1]

\* a variant of containsOneOf: only the first label is compared
containsOneOfFirst(labels, x) == labels # <<>> /\ labels[1] = x

containsOneOf(labels, x) == InSeq(x, labels)

\* a variant of ReviewStatus: the approved label counts in every repository
\* whose pull request is not lgtm
ReviewStatusApprovedAnywhere(pr, lgtmRepo, statuses) ==
    IF containsOneOf(pr.Labels, "needs-ok-to-test")
    THEN getStatus(statuses.NeedsOkToTest, defaultStatuses.NeedsOkToTest)
    ELSE IF containsOneOf(pr.Labels, "do-not-merge/hold")
    THEN getStatus(statuses.Hold, defaultStatuses.Hold)
    ELSE IF lgtmRepo /\ containsOneOf(pr.Labels, "lgtm")
    THEN getStatus(statuses.LGTM, defaultStatuses.LGTM)
    ELSE IF containsOneOf(pr.Labels, "approved")
    THEN getStatus(statuses.Approved, defaultStatuses.Approved)
    ELSE getStatus(statuses.NotApproved, defaultStatuses.NotApproved)

\* the review status of createReviewersMessage
ReviewStatus(pr, lgtmRepo, statuses) ==
    LET s0 == getStatus(statuses.NotApproved, defaultStatuses.NotApproved)
        s1 == IF lgtmRepo
              THEN IF containsOneOf(pr.Labels, "lgtm")
                   THEN getStatus(statuses.LGTM, defaultStatuses.LGTM) ELSE s0
              ELSE IF containsOneOf(pr.Labels, "approved")
                   THEN getStatus(statuses.Approved, defaultStatuses.Approved) ELSE s0
        s2 == IF containsOneOf(pr.Labels, "do-not-merge/hold")
              THEN getStatus(statuses.Hold, defaultStatuses.Hold) ELSE s1
    IN  IF containsOneOf(pr.Labels, "needs-ok-to-test")
        THEN getStatus(statuses.NeedsOkToTest, defaultStatuses.NeedsOkToTest) ELSE s2

\* the build status of createReviewersMessage
BuildStatus(pr, activity, statuses) ==
    IF pr.Merged = "true" THEN getStatus(statuses.Merged, defaultStatuses.Merged)
    ELSE IF pr.Closed THEN getStatus(statuses.Closed, defaultStatuses.Closed)
    ELSE CASE activity.Status = "pending" ->
                getStatus(statuses.Pending, defaultStatuses.Pending)
           [] activity.Status = "running" ->
                getStatus(statuses.Running, defaultStatuses.Running)
           [] activity.Status = "success" ->
                getStatus(statuses.Succeeded, defaultStatuses.Succeeded)
           [] activity.Status = "failure" ->
                getStatus(statuses.Failed, defaultStatuses.Failed)
           [] activity.Status = "aborted" ->
                getStatus(statuses.Aborted, defaultStatuses.Aborted)
           [] OTHER -> getStatus(statuses.Unknown, defaultStatuses.Unknown)

\* the loop over pr.RequestedReviewers, from reviewer i on: each is resolved
\* for its mention; nothing is added to the reviewers the function returns
RECURSIVE ResolveReviewers(_, _, _, _)
ResolveReviewers(rs, requested, i, env) ==
    IF i > Len(requested) \/ rs.err # "" THEN rs
    ELSE ResolveReviewers(
            [rs EXCEPT !.trace = Append(@, ProviderCall("resolve")),
                       !.err = IF Fails(env.fail, "resolve", <<>>) THEN "provider" ELSE ""],
            requested, i + 1, env)

createReviewersMessage(rs, activity, notifyReviewers, pr, env, statuses) ==
    LET rs1 == [rs EXCEPT !.trace = Append(@, ProviderCall("resolve")),
                          !.err = IF Fails(env.fail, "resolve", <<>>) THEN "provider" ELSE ""]
        rs2 == IF notifyReviewers THEN ResolveReviewers(rs1, pr.RequestedReviewers, 1, env)
               ELSE rs1
        rs3 == [rs2 EXCEPT !.trace = Append(@, ProviderCall("prow")),
                           !.err = IF Fails(env.fail, "prow", <<>>) THEN "provider" ELSE ""]
        updatedEpochTime == getLastUpdatedTime(pr, activity)
        buildStatus == BuildStatus(pr, activity, statuses)
        nothing == [attachments |-> NoAttachments, reviewers |-> <<>>,
                    buildStatus |-> NilStatus]
    IN  IF rs1.err # "" THEN nothing @@ [rs |-> rs1]
        ELSE IF rs2.err # "" THEN nothing @@ [rs |-> rs2]
        ELSE IF rs3.err # "" THEN nothing @@ [rs |-> rs3]
        ELSE [attachments |->
                 [kind |-> "pr", Color |-> attachmentColor(pipelineStatus(activity)),
                  Ts |-> IF updatedEpochTime > 0 THEN updatedEpochTime ELSE -1,
                  review |-> ReviewStatus(pr, env.lgtmRepo, statuses),
                  build |-> buildStatus],
              reviewers |-> <<>>,
              buildStatus |-> buildStatus,
              rs |-> rs3]

\* createIfMissing of ReviewRequestMessage: the statuses are compared as pointers
ReviewCreateIfMissing(buildStatus) ==
    ~(buildStatus = defaultStatuses.Merged \/ buildStatus = defaultStatuses.Closed)

\* a variant of ReviewKeyActivity: the triggering activity keys the posts
ReviewKeyTrigger(oldestActivity, activity) == activity

\* the activity whose name keys the posts of the review flow
ReviewKeyActivity(oldestActivity, activity) == oldestActivity

\* the loop over the reviewers to message directly, from reviewer i on
RECURSIVE ReviewDirectMessages(_, _, _, _, _, _, _)
ReviewDirectMessages(rs, reviewers, i, keyActivity, attachments, createIfMissing, env) ==
    IF i > Len(reviewers) \/ rs.err # "" THEN rs
    ELSE ReviewDirectMessages(
            postMessage(rs, env.fail, reviewers[i], TRUE, "pr", keyActivity,
                        attachments, createIfMissing),
            reviewers, i + 1, keyActivity, attachments, createIfMissing, env)

\* a variant of NotStale: the build numbers are not compared
NotStaleEver(activity, found) == TRUE

\* a variant of NotStale: an activity with no sibling is held stale
NotStaleAmongSiblings(activity, found) ==
    found.found /\ BuildNumber(activity) >= BuildNumber(found.all[Len(found.all)])

\* buildNumber >= latestBuildNumber, with -1 for no latest activity
NotStale(activity, found) ==
    BuildNumber(activity) >=
        (IF found.found THEN BuildNumber(found.all[Len(found.all)]) ELSE -1)

\* the body of the loop of ReviewRequestMessage, for one rule
ReviewRule(rs, cfg, activity, items, env, statuses) ==
    LET en     == isEnabled(rs, activity, cfg.Orgs, cfg.IgnoreLabels, env)
        found  == findPipelineActivities(en.rs, activity, items, env)
        build  == Atoi(createPipelineDetails(activity).Build)
        oldest == IF found.found THEN found.all[1] ELSE activity
        m      == createReviewersMessage(found.rs, activity, cfg.NotifyReviewers, en.pr,
                                         env, statuses)
        createIfMissing == ReviewCreateIfMissing(m.buildStatus)
        keyActivity == ReviewKeyActivity(oldest, activity)
        r1     == IF cfg.Channel # <<>>
                  THEN postMessage(m.rs, env.fail, channelName(cfg.Channel), FALSE, "pr",
                                   keyActivity, m.attachments, createIfMissing)
                  ELSE m.rs
    IN  IF en.err # "" THEN [en.rs EXCEPT !.err = en.err]
        ELSE IF ~en.enabled THEN en.rs
        ELSE IF found.err # "" THEN [found.rs EXCEPT !.err = found.err]
        ELSE IF build.err THEN [found.rs EXCEPT !.err = "atoi"]
        ELSE IF ~NotStale(activity, found) THEN found.rs
        ELSE IF m.rs.err # "" THEN m.rs
        ELSE IF r1.err # "" THEN r1
        ELSE IF ~(cfg.DirectMessage /\ cfg.NotifyReviewers) THEN r1
        ELSE ReviewDirectMessages(r1, m.reviewers, 1, keyActivity, m.attachments,
                                  createIfMissing, env)

\* the loop over o.PullRequests, from rule i on: the first error returns
RECURSIVE ReviewRules(_, _, _, _, _, _, _)
ReviewRules(rs, rules, i, activity, items, env, statuses) ==
    IF i > Len(rules) \/ rs.err # "" THEN rs
    ELSE ReviewRules(ReviewRule(rs, rules[i], activity, items, env, statuses), rules,
                     i + 1, activity, items, env, statuses)

\* a variant of ReviewRequestMessageRun: the rules are gone through whatever
\* the pull request number
ReviewRequestMessageRunAnyBranch(rs, activity, items, env, cfg) ==
    LET prn == getPullRequestNumber(activity)
    IN  IF activity.Name = "" THEN [rs EXCEPT !.err = "name"]
        ELSE IF prn.err THEN [rs EXCEPT !.err = "prn"]
        ELSE ReviewRules(rs, cfg.PullRequests, 1, activity, items, env,
                         StatusesOf(cfg.Statuses))

ReviewRequestMessageRun(rs, activity, items, env, cfg) ==
    LET prn == getPullRequestNumber(activity)
    IN  IF activity.Name = "" THEN [rs EXCEPT !.err = "name"]
        ELSE IF prn.err THEN [rs EXCEPT !.err = "prn"]
        ELSE IF prn.val > 0
        THEN ReviewRules(rs, cfg.PullRequests, 1, activity, items, env,
                         StatusesOf(cfg.Statuses))
        ELSE rs

----------------------------------------------------------------------------
(* The inputs the model draws from. *)

Acme(name, branch, build) ==
    [Name |-> name, Owner |-> "acme", Repo |-> "widgets", Branch |-> branch,
     BuildIdentifier |-> build, GitURL |-> "https://github.com/acme/widgets",
     Status |-> "running", Stages |-> <<>>, StartTime |-> -1, CompletionTime |-> -1]

\* the builds of pull request 42 of acme/widgets, in build order
PRBuilds ==
    <<Acme("a1", <<"P", "R", "-", "4", "2">>, <<"1">>),
      Acme("a2", <<"p", "r", "-", "4", "2">>, <<"2">>)>>

\* a release build of another organisation
ReleaseBuild == [Acme("m1", MasterBranch, <<"7">>) EXCEPT !.Owner = "other", !.Repo = "tools"]

BaseActivities == {PRBuilds[i] : i \in 1..Len(PRBuilds)} \cup {ReleaseBuild}

\* an event for the first build that carries no activity name
Unnamed == [PRBuilds[1] EXCEPT !.Name = "", !.StartTime = 90]

\* an activity of a branch that starts as a pull request's does and goes on
\* with no number
Malformed == [Acme("x1", <<"p", "r", "-", "x">>, <<"3">>) EXCEPT !.StartTime = 90]

\* the time.Now() of the invocations
Now == 100

\* an activity as an event delivers it: running and started within the day,
\* or finished and started more than a day ago
Activities ==
    UNION {{[a EXCEPT !.StartTime = 90],
            [a EXCEPT !.Status = "success", !.StartTime = 50, !.CompletionTime = 60]}
           : a \in BaseActivities}
    \cup {Unnamed, Malformed}

PR(labels, merged, closed) ==
    [nil |-> FALSE, Labels |-> labels, Merged |-> merged, Closed |-> closed,
     Author |-> "alice", RequestedReviewers |-> <<"bob">>, UpdatedAt |-> 95]

PullRequests ==
    {PR(<<>>, "nil", FALSE), PR(<<"wip">>, "false", FALSE),
     PR(<<"approved">>, "true", TRUE), PR(<<>>, "false", TRUE)}

\* the chat identities of the git users: the author has one or none
AuthorKnown == [u \in {"alice", "bob"} |-> IF u = "alice" THEN <<"U", "1">> ELSE <<"U", "2">>]

AuthorUnknown == [u \in {"alice", "bob"} |-> IF u = "alice" THEN <<>> ELSE <<"U", "2">>]

SlackIds == {AuthorKnown, AuthorUnknown}

Dev == <<"d", "e", "v">>

Ops == <<"#", "o", "p", "s">>

Author1 == <<"U", "1">>

\* the failures of one invocation: of a provider, or of the sink for one
\* operation on one destination
Failures ==
    [op : {"getPullRequest", "activities", "resolve", "prow"}, channel : {<<>>}]
    \cup [op : {"send"}, channel : {channelName(Dev), Ops, Author1}]
    \cup [op : {"open"}, channel : {Author1}]

\* what the providers and the clock answer during one invocation: any pull
\* request and identity with no failure, or a failure with the open pull request
Envs ==
    [pr : PullRequests, slackId : SlackIds, lgtmRepo : {FALSE},
     fail : {NoFailure}, now : {Now}]
    \cup [pr : {PR(<<>>, "nil", FALSE)}, slackId : {AuthorKnown},
          lgtmRepo : {FALSE}, fail : Failures, now : {Now}]

Rule(channel, directMessage, notifyReviewers, orgs, ignoreLabels) ==
    [Channel |-> channel, DirectMessage |-> directMessage,
     NotifyReviewers |-> notifyReviewers, Orgs |-> orgs, IgnoreLabels |-> ignoreLabels]

\* the configurations the bot is constructed with
Configs ==
    {[Pipelines    |-> <<Rule(Dev, FALSE, FALSE, <<>>, <<>>)>>,
      PullRequests |-> <<Rule(channelName(Dev), FALSE, TRUE, <<>>, <<>>)>>,
      Statuses     |-> {}],
     [Pipelines    |-> <<Rule(Dev, TRUE, FALSE, <<>>, <<>>),
                         Rule(Ops, FALSE, FALSE,
                              <<[Name |-> "acme", Repos |-> <<>>]>>, <<"wip">>)>>,
      PullRequests |-> <<Rule(<<>>, TRUE, TRUE, <<>>, <<>>),
                         Rule(Ops, TRUE, FALSE,
                              <<[Name |-> "acme", Repos |-> <<"widgets">>]>>, <<>>),
                         Rule(Dev, FALSE, FALSE, <<>>, <<"wip">>)>>,
      Statuses     |-> {"Merged"}],
     [Pipelines    |-> <<Rule(Ops, FALSE, FALSE, <<>>, <<"wip">>)>>,
      PullRequests |-> <<Rule(Ops, FALSE, FALSE, <<>>, <<>>)>>,
      Statuses     |-> {"Closed", "Running"}]}

----------------------------------------------------------------------------
(* The bot, its invocations processed one at a time. *)

NoActivity == Acme("", <<>>, <<>>)

NoEnv == [pr |-> NilPR, slackId |-> <<>>, lgtmRepo |-> FALSE, fail |-> NoFailure, now |-> 0]

\* the state of an invocation that starts
Start == [Timestamps |-> Timestamps, messages |-> messages, nextTs |-> nextTs,
          trace |-> <<>>, posts |-> <<>>, err |-> ""]

\* the record of no invocation
NoInvocation == [flow |-> "none", activity |-> NoActivity, env |-> NoEnv,
                 before |-> <<>>, trace |-> <<>>, posts |-> <<>>, err |-> ""]

Finish(flow, activity, env, rs) ==
    /\ Timestamps' = rs.Timestamps
    /\ messages' = rs.messages
    /\ nextTs' = rs.nextTs
    /\ last' = [flow |-> flow, activity |-> activity, env |-> env,
                before |-> Timestamps, trace |-> rs.trace, posts |-> rs.posts,
                err |-> rs.err]
    /\ UNCHANGED <<config, known, procs>>

Init ==
    /\ Timestamps = <<>>
    /\ config \in Configs
    /\ known = <<>>
    /\ messages = {}
    /\ nextTs = 1
    /\ last = NoInvocation
    /\ procs = <<>>

\* PipelineMessage(activity)
PipelineMessage ==
    /\ last = NoInvocation
    /\ nextTs <= MaxMessages
    /\ \E activity \in Activities, env \in Envs :
          Finish("pipeline", activity, env,
                 PipelineMessageRun(Start, activity, env, config))

\* ReviewRequestMessage(activity)
ReviewRequestMessage ==
    /\ last = NoInvocation
    /\ nextTs <= MaxMessages
    /\ \E activity \in Activities, env \in Envs :
          Finish("review", activity, env,
                 ReviewRequestMessageRun(Start, activity, known, env, config))

\* the activity provider comes to list one more build of the pull request,
\* later than those it lists, at any place of its listing
NewActivity ==
    /\ last = NoInvocation
    /\ \E i \in 1..Len(PRBuilds), at \in 0..Len(known) :
          /\ \A j \in 1..Len(known) : BuildNumber(known[j]) < BuildNumber(PRBuilds[i])
          /\ known' = SubSeq(known, 1, at) \o <<PRBuilds[i]>>
                        \o SubSeq(known, at + 1, Len(known))
    /\ UNCHANGED <<Timestamps, config, messages, nextTs, last, procs>>

\* the caller has taken the result of the invocation, and the next event
\* can be handled
Returned ==
    /\ last # NoInvocation
    /\ last' = NoInvocation
    /\ UNCHANGED <<Timestamps, config, known, messages, nextTs, procs>>

Next == PipelineMessage \/ ReviewRequestMessage \/ Returned \/ NewActivity

Spec == Init /\ [][Next]_vars

----------------------------------------------------------------------------
(* Two postMessage calls running concurrently, statement by statement, on   *)
(* channel destinations.  The code takes no lock.                           *)

Goroutines == {1, 2}

\* the store the two calls start from: empty, or holding one reference
InitialStores ==
    {<<>>, Record(<<>>, channelName(Dev), "a1",
                  [ChannelID |-> SinkChannelID(channelName(Dev)), Timestamp |-> 1])}

\* a call about to start
Goroutine(channel, key, createIfMissing, sendFails) ==
    [pc |-> "lookup", channel |-> channel, key |-> key,
     createIfMissing |-> createIfMissing, sendFails |-> sendFails,
     messageRef |-> NilRef, reply |-> NilRef, outcome |-> ""]

InitConc ==
    /\ Timestamps \in InitialStores
    /\ config \in Configs
    /\ known = <<>>
    /\ messages = {[channel |-> d, key |-> k, messageType |-> "pipeline",
                    ChannelID |-> Timestamps[d][k].ChannelID,
                    Timestamp |-> Timestamps[d][k].Timestamp]
                   : d \in DOMAIN Timestamps, k \in {"a1"}}
    /\ nextTs = 2
    /\ last = [NoInvocation EXCEPT !.before = Timestamps]
    /\ procs \in [Goroutines ->
                    {Goroutine(c, k, cim, f) : c \in {channelName(Dev), Ops},
                                               k \in {"a1", "a2"},
                                               cim \in BOOLEAN, f \in BOOLEAN}]

\* messageRef := o.Timestamps[channel][activity.Name]
LookupRef(p) ==
    /\ procs[p].pc = "lookup"
    /\ procs' = [procs EXCEPT ![p].messageRef =
                                 Lookup(Timestamps, procs[p].channel, procs[p].key),
                              ![p].pc = "check"]
    /\ UNCHANGED <<Timestamps, config, known, messages, nextTs, last>>

\* if _, ok := o.Timestamps[channel]; !ok
CheckChannel(p) ==
    /\ procs[p].pc = "check"
    /\ procs' = [procs EXCEPT ![p].pc = IF procs[p].channel \in DOMAIN Timestamps
                                        THEN "send" ELSE "make"]
    /\ UNCHANGED <<Timestamps, config, known, messages, nextTs, last>>

\* o.Timestamps[channel] = make(map[string]*MessageReference, 0)
MakeChannel(p) ==
    /\ procs[p].pc = "make"
    /\ Timestamps' = [d \in DOMAIN Timestamps \cup {procs[p].channel} |->
                         IF d = procs[p].channel THEN <<>> ELSE Timestamps[d]]
    /\ procs' = [procs EXCEPT ![p].pc = "send"]
    /\ UNCHANGED <<config, known, messages, nextTs, last>>

\* the decision and SendMessageContext
SendMessage(p) ==
    LET g         == procs[p]
        timestamp == g.messageRef.Timestamp
        channelId == TargetChannel(g.channel, FALSE, g.messageRef)
        reply     == SendMessageContext(channelId, timestamp, nextTs)
    IN  /\ g.pc = "send"
        /\ IF ~ShouldPost(timestamp, g.createIfMissing)
           THEN /\ procs' = [procs EXCEPT ![p].pc = "done", ![p].outcome = "skip"]
                /\ UNCHANGED <<messages, nextTs>>
           ELSE IF g.sendFails
           THEN /\ procs' = [procs EXCEPT ![p].pc = "done", ![p].outcome = "send failed"]
                /\ UNCHANGED <<messages, nextTs>>
           ELSE /\ procs' = [procs EXCEPT ![p].pc = "record", ![p].reply = reply,
                                          ![p].outcome = IF timestamp # 0 THEN "update"
                                                         ELSE "create"]
                /\ messages' = IF timestamp # 0 THEN messages
                               ELSE messages \cup
                                    {[channel |-> g.channel, key |-> g.key,
                                      messageType |-> "pipeline",
                                      ChannelID |-> reply.ChannelID,
                                      Timestamp |-> reply.Timestamp]}
                /\ nextTs' = IF timestamp # 0 THEN nextTs ELSE nextTs + 1
        /\ UNCHANGED <<Timestamps, config, known, last>>

\* o.Timestamps[channel][activity.Name] = &MessageReference{...}
RecordRef(p) ==
    /\ procs[p].pc = "record"
    /\ Timestamps' = Record(Timestamps, procs[p].channel, procs[p].key, procs[p].reply)
    /\ procs' = [procs EXCEPT ![p].pc = "done"]
    /\ UNCHANGED <<config, known, messages, nextTs, last>>

\* the accesses to the maps of o.Timestamps are not synchronized: when one
\* goroutine is about to write a map while the other is about to read or
\* write one, the Go runtime may stop the process (concurrent map access)
MapFault ==
    /\ \E p, q \in Goroutines :
          /\ p # q
          /\ procs[p].pc \in {"make", "record"}
          /\ procs[q].pc \in {"lookup", "check", "make", "record"}
    /\ procs' = [p \in Goroutines |-> [procs[p] EXCEPT !.pc = "crashed"]]
    /\ UNCHANGED <<Timestamps, config, known, messages, nextTs, last>>

NextConc ==
    \/ \E p \in Goroutines :
          LookupRef(p) \/ CheckChannel(p) \/ MakeChannel(p) \/ SendMessage(p) \/ RecordRef(p)
    \/ MapFault

SpecConc == InitConc /\ [][NextConc]_vars

----------------------------------------------------------------------------
(* findPipelineActivities on the lists an activity provider can answer.     *)

\* activities of pull request 42 whose build identifiers compare differently
\* as integers and as strings, two of them of the same build
ThreadBuilds ==
    {PRBuilds[1], PRBuilds[2], Acme("b2", PrPrefix \o <<"4", "2">>, <<"2">>),
     Acme("a10", PrPrefix \o <<"4", "2">>, <<"1", "0">>)}

FillerNames == <<"f3", "f4", "f5", "f6", "f7", "f8", "f9", "f10", "f11", "f12", "f13">>

FillerBuilds ==
    << <<"3">>, <<"4">>, <<"5">>, <<"6">>, <<"7">>, <<"8">>, <<"9">>, <<"1", "0">>,
       <<"1", "1">>, <<"1", "2">>, <<"1", "3">> >>

Fillers == [i \in 1..Len(FillerNames) |->
               Acme(FillerNames[i], PrPrefix \o <<"4", "2">>, FillerBuilds[i])]

\* the answers of the provider: up to three of ThreadBuilds in any order, or
\* two of them around eleven later builds
SiblingLists ==
    {<<a>> : a \in ThreadBuilds}
    \cup {p \in ThreadBuilds \X ThreadBuilds : p[1] # p[2]}
    \cup {t \in ThreadBuilds \X ThreadBuilds \X ThreadBuilds :
             t[1] # t[2] /\ t[1] # t[3] /\ t[2] # t[3]}
    \cup {<<p[1]>> \o Fillers \o <<p[2]>> :
             p \in {q \in ThreadBuilds \X ThreadBuilds : q[1] # q[2]}}

InitThread ==
    /\ Timestamps = <<>>
    /\ config \in Configs
    /\ known \in SiblingLists
    /\ messages = {}
    /\ nextTs = 1
    /\ last = NoInvocation
    /\ procs = <<>>

\* findPipelineActivities(activity): oldest is records[0], latest is
\* records[len(records) - 1]
FindThread ==
    /\ last = NoInvocation
    /\ \E activity \in {PRBuilds[2]} :
          LET details == createPipelineDetails(activity)
              acts    == getPipelineActivities(known, details.GitOwner,
                                               details.GitRepository,
                                               getPullRequestNumber(activity).val)
          IN  \E records \in sortSort(acts) :
                  last' = [flow |-> "find", activity |-> activity,
                           oldest |-> records[1], latest |-> records[Len(records)],
                           all |-> records]
    /\ UNCHANGED <<Timestamps, config, known, messages, nextTs, procs>>

NextThread == FindThread

SpecThread == InitThread /\ [][NextThread]_vars

----------------------------------------------------------------------------
(* createReviewersMessage on the pull requests and activities it can be     *)
(* given: the review status and the build status of the message.            *)

ReviewLabels == {"lgtm", "approved", "do-not-merge/hold", "needs-ok-to-test", "wip"}

\* the labels of a pull request: up to three different labels, in any order
LabelLists ==
    {<<>>}
    \cup {<<l>> : l \in ReviewLabels}
    \cup {p \in ReviewLabels \X ReviewLabels : p[1] # p[2]}
    \cup {t \in ReviewLabels \X ReviewLabels \X ReviewLabels :
             t[1] # t[2] /\ t[1] # t[3] /\ t[2] # t[3]}

\* the states of an activity: those of the switch, an errored one, none
ActivityStates == {"pending", "running", "success", "failure", "aborted", "error", ""}

\* the kinds o.Statuses overrides: none, some, all
OverrideSets == {{}, {"Merged"}, {"Closed", "Running", "Hold"}, DOMAIN defaultStatuses}

InitMessage ==
    /\ Timestamps = <<>>
    /\ config \in {[Pipelines |-> <<>>, PullRequests |-> <<>>, Statuses |-> o] :
                      o \in OverrideSets}
    /\ known = <<>>
    /\ messages = {}
    /\ nextTs = 1
    /\ last = NoInvocation
    /\ procs = <<>>

\* createReviewersMessage(activity, notifyReviewers, pr, resolver)
CreateReviewersMessage ==
    /\ last = NoInvocation
    /\ \E labels \in LabelLists, merged \in {"nil", "false", "true"},
           closed \in BOOLEAN, lgtmRepo \in BOOLEAN, state \in ActivityStates :
          LET activity == [PRBuilds[2] EXCEPT !.Status = state, !.StartTime = 90]
              env      == [pr |-> PR(labels, merged, closed), slackId |-> AuthorKnown,
                           lgtmRepo |-> lgtmRepo, fail |-> NoFailure, now |-> Now]
              m        == createReviewersMessage(Start, activity, FALSE, env.pr, env,
                                                 StatusesOf(config.Statuses))
          IN  last' = [flow |-> "message", activity |-> activity, env |-> env,
                       review |-> m.attachments.review, build |-> m.attachments.build,
                       buildStatus |-> m.buildStatus]
    /\ UNCHANGED <<Timestamps, config, known, messages, nextTs, procs>>

NextMessage == CreateReviewersMessage

SpecMessage == InitMessage /\ [][NextMessage]_vars

----------------------------------------------------------------------------
(* getPullRequestNumber on the branch names an activity can carry.          *)

BranchChars == {"p", "P", "r", "-", "+", "4", "0", "x", "/"}

\* the branch names of up to MaxBranchLen characters
Branches == UNION {[1..n -> BranchChars] : n \in 0..MaxBranchLen}

InitBranch ==
    /\ Timestamps = <<>>
    /\ config \in {c \in Configs : c.Statuses = {}}
    /\ known = <<>>
    /\ messages = {}
    /\ nextTs = 1
    /\ last = NoInvocation
    /\ procs = <<>>

\* getPullRequestNumber(activity)
GetPullRequestNumber ==
    /\ last = NoInvocation
    /\ \E branch \in Branches :
          LET activity == [PRBuilds[1] EXCEPT !.Branch = branch]
          IN  last' = [flow |-> "number", activity |-> activity,
                       prn |-> getPullRequestNumber(activity)]
    /\ UNCHANGED <<Timestamps, config, known, messages, nextTs, procs>>

NextBranch == GetPullRequestNumber

SpecBranch == InitBranch /\ [][NextBranch]_vars

----------------------------------------------------------------------------
(* isEnabled on the rules and the activities it can be given.               *)

\* the entries of an allow-list: an organisation, with none, one or two
\* repositories
OrgEntries ==
    [Name : {"acme", "other"},
     Repos : {<<>>, <<"widgets">>, <<"tools">>, <<"tools", "widgets">>}]

\* the allow-lists: of up to two entries
OrgLists == {<<>>} \cup {<<e>> : e \in OrgEntries} \cup (OrgEntries \X OrgEntries)

\* activities of either organisation and repository, of a pull request or not
GateActivities ==
    {[a EXCEPT !.Owner = o, !.Repo = r] :
        a \in {PRBuilds[1], ReleaseBuild}, o \in {"acme", "other"},
        r \in {"widgets", "tools"}}

InitGate ==
    /\ Timestamps = <<>>
    /\ config \in {c \in Configs : c.Statuses = {}}
    /\ known = <<>>
    /\ messages = {}
    /\ nextTs = 1
    /\ last = NoInvocation
    /\ procs = <<>>

\* isEnabled(activity, orgs, ignoreLabels)
IsEnabled ==
    /\ last = NoInvocation
    /\ \E activity \in GateActivities, orgs \in OrgLists,
           ignoreLabels \in {<<>>, <<"wip">>}, env \in Envs :
          LET en == isEnabled(Start, activity, orgs, ignoreLabels, env)
          IN  last' = [flow |-> "gate", activity |-> activity, orgs |-> orgs,
                       ignoreLabels |-> ignoreLabels, env |-> env,
                       enabled |-> en.enabled, pr |-> en.pr, err |-> en.err,
                       trace |-> en.rs.trace]
    /\ UNCHANGED <<Timestamps, config, known, messages, nextTs, procs>>

NextGate == IsEnabled

SpecGate == InitGate /\ [][NextGate]_vars

----------------------------------------------------------------------------
(* createPipelineMessage on the activities and pull requests it can be      *)
(* given: the colour and the timestamp of the message, and createIfMissing. *)

\* the stages of an activity: none, one or two, each with its status
StageLists ==
    LET stages == [Status : {"success", "failure", "running", "aborted"}]
    IN  {<<>>} \cup {<<st>> : st \in stages} \cup (stages \X stages)

\* times in hours: none, more than a day before Now, a day before Now, less
StartTimes == {-1, 50, Now - DayHours, 90}

CompletionTimes == {-1, 60, 95}

UpdateTimes == {-1, 40, 95}

\* an activity with the pull request isEnabled hands over for it: one of the
\* pull request, or none for an activity of no pull request
RenderInputs ==
    {[activity |-> a, pr |-> [PR(<<>>, "nil", FALSE) EXCEPT !.UpdatedAt = t]] :
        a \in {PRBuilds[1]}, t \in UpdateTimes}
    \cup {[activity |-> ReleaseBuild, pr |-> NilPR]}

InitRender ==
    /\ Timestamps = <<>>
    /\ config \in {c \in Configs : c.Statuses = {}}
    /\ known = <<>>
    /\ messages = {}
    /\ nextTs = 1
    /\ last = NoInvocation
    /\ procs = <<>>

\* createPipelineMessage(activity, pr)
CreatePipelineMessage ==
    /\ last = NoInvocation
    /\ \E in \in RenderInputs, state \in ActivityStates, stages \in StageLists,
           start \in StartTimes, completion \in CompletionTimes :
          LET activity == [in.activity EXCEPT !.Status = state, !.Stages = stages,
                                              !.StartTime = start,
                                              !.CompletionTime = completion]
              m        == createPipelineMessage(activity, in.pr, Now)
          IN  last' = [flow |-> "render", activity |-> activity, pr |-> in.pr,
                       now |-> Now, attachments |-> m.attachments,
                       createIfMissing |-> m.createIfMissing, err |-> m.err]
    /\ UNCHANGED <<Timestamps, config, known, messages, nextTs, procs>>

NextRender == CreatePipelineMessage

SpecRender == InitRender /\ [][NextRender]_vars

----------------------------------------------------------------------------
(* What the claims speak of. *)

\* the postMessage calls of the invocation being reported
Posts == {last.posts[i] : i \in 1..Len(last.posts)}

\* the message calls (sends and updates) a postMessage call issued
MessageCalls(post) == SelectSeq(post.calls, LAMBDA c : c.op = "send")

\* the messages the sink created for a destination and a key
MessagesOf(channel, key) == {m \in messages : m.channel = channel /\ m.key = key}

\* the destinations and keys the store or the sink know of
Destinations == DOMAIN Timestamps \cup {m.channel : m \in messages}

Keys == {m.key : m \in messages} \cup UNION {DOMAIN Timestamps[d] : d \in DOMAIN Timestamps}

----------------------------------------------------------------------------
(* C1: with the invocations processed one at a time, the sink has created   *)
(* at most one message for every destination and key, every stored          *)
(* reference is that of the one message created for its destination and     *)
(* key, and a postMessage call that finds a reference stored never creates: *)
(* any message call it issues is an update carrying the stored timestamp.   *)
C1_OneMessagePerKey ==
    /\ \A d \in Destinations, k \in Keys :
          /\ Cardinality(MessagesOf(d, k)) <= 1
          /\ HasRef(Timestamps, d, k) =>
                \E m \in MessagesOf(d, k) :
                    /\ m.Timestamp = Timestamps[d][k].Timestamp
                    /\ m.ChannelID = Timestamps[d][k].ChannelID
    /\ \A post \in Posts :
          /\ post.outcome = "create" => post.ref = NilRef
          /\ post.ref # NilRef =>
                \A i \in 1..Len(MessageCalls(post)) :
                    MessageCalls(post)[i].update = post.ref.Timestamp

\* the same activity went through the pipeline flow again: its message was
\* updated, and it is the only one of its destination and key
C1_Witness ==
    /\ last.flow = "pipeline"
    /\ \E post \in Posts :
          /\ post.outcome = "update"
          /\ post.key = last.activity.Name
          /\ Cardinality(MessagesOf(post.channel, post.key)) = 1

----------------------------------------------------------------------------
(* C2: two postMessage calls for the same destination and key that run      *)
(* concurrently, from a store with no reference for it and both with        *)
(* createIfMissing, do not both create a message: once both have finished,  *)
(* at most one of them has created and the other has updated that message.  *)
C2_SameKeySerialized ==
    (/\ \A p \in Goroutines : procs[p].pc = "done" /\ procs[p].createIfMissing
                              /\ ~procs[p].sendFails
     /\ procs[1].channel = procs[2].channel
     /\ procs[1].key = procs[2].key
     /\ ~HasRef(last.before, procs[1].channel, procs[1].key))
    => \E p, q \in Goroutines :
          /\ p # q
          /\ procs[p].outcome = "create"
          /\ procs[q].outcome = "update"
          /\ procs[q].messageRef = procs[p].reply

(* C3: two postMessage calls for different keys that run concurrently and   *)
(* whose sends both succeed: once both have finished, the store holds for   *)
(* each key the reference its own send returned.                            *)
C3_DifferentKeysKept ==
    (/\ \A p \in Goroutines : procs[p].pc = "done"
                              /\ procs[p].outcome \in {"create", "update"}
     /\ procs[1].key # procs[2].key)
    => \A p \in Goroutines :
          Lookup(Timestamps, procs[p].channel, procs[p].key) = procs[p].reply

----------------------------------------------------------------------------
\* the postMessage calls in which a sink call failed
FailedPosts == {post \in Posts : post.outcome \in {"open failed", "send failed"}}

(* C4, as claimed: when a sink call fails during postMessage the store is   *)
(* exactly as before the call, with no destination entry and no key entry   *)
(* added, changed or removed.                                               *)
C4_StoreUntouchedOnFailure == \A post \in FailedPosts : post.after = post.before

(* C4, amended: when a sink call fails during postMessage no reference has  *)
(* been added, changed or removed; the only change the store can show is an *)
(* empty entry for the destination of the call, if it had none.             *)
C4_NoReferenceChangedOnFailure ==
    \A post \in FailedPosts :
        /\ \A d \in DOMAIN post.before :
              d \in DOMAIN post.after /\ post.after[d] = post.before[d]
        /\ \A d \in DOMAIN post.after \ DOMAIN post.before :
              d = post.channel /\ post.after[d] = <<>>

\* a send failed to a destination the store, which holds references, had no
\* entry for
C4_Witness ==
    \E post \in FailedPosts :
        /\ post.before # <<>>
        /\ post.channel \notin DOMAIN post.before
        /\ post.after # post.before

(* C5, as claimed: a postMessage call that finds a reference stored issues  *)
(* exactly one message call, an update addressed to the stored channel id   *)
(* with the stored timestamp, and creates no message.                       *)
C5_StoredReferenceUpdates ==
    \A post \in Posts :
        post.ref # NilRef =>
            /\ Len(MessageCalls(post)) = 1
            /\ MessageCalls(post)[1].channel = post.ref.ChannelID
            /\ MessageCalls(post)[1].update = post.ref.Timestamp
            /\ post.outcome # "create"

(* C5, amended: a postMessage call that finds a reference stored, for       *)
(* either createIfMissing and for channels and direct messages, issues      *)
(* exactly one message call, an update addressed to the stored channel id   *)
(* with the stored timestamp, and creates no message, unless opening the    *)
(* direct conversation fails: then it issues no message call.               *)
C5_StoredReferenceUpdatesOnceOpened ==
    \A post \in Posts :
        post.ref # NilRef =>
            IF post.outcome = "open failed"
            THEN post.directMessage /\ MessageCalls(post) = <<>>
            ELSE /\ Len(MessageCalls(post)) = 1
                 /\ MessageCalls(post)[1].channel = post.ref.ChannelID
                 /\ MessageCalls(post)[1].update = post.ref.Timestamp
                 /\ post.outcome \in {"update", "send failed"}

\* updates of a channel message and of a direct message, one of them with
\* createIfMissing false
C5_Witness ==
    /\ \E post \in Posts : post.outcome = "update" /\ post.directMessage
    /\ \E post \in Posts : post.outcome = "update" /\ ~post.directMessage
                           /\ ~post.createIfMissing

\* the postMessage calls that find no reference and may not create
SkippablePosts == {post \in Posts : post.ref = NilRef /\ ~post.createIfMissing}

(* C6, as claimed: a postMessage call that finds no reference, with         *)
(* createIfMissing false, sends and updates no message, returns no error    *)
(* and leaves the store without a reference for the key.                    *)
C6_MissingReferenceSkipped ==
    \A post \in SkippablePosts :
        /\ MessageCalls(post) = <<>>
        /\ post.outcome = "skip"
        /\ ~HasRef(post.after, post.channel, post.key)

(* C6, amended: a postMessage call that finds no reference, with            *)
(* createIfMissing false, sends and updates no message and leaves the store *)
(* without a reference for the key; it returns no error, unless it is a     *)
(* direct message and opening the conversation fails.                       *)
C6_MissingReferenceSkippedOnceOpened ==
    \A post \in SkippablePosts :
        /\ MessageCalls(post) = <<>>
        /\ post.outcome = "skip" \/ (post.directMessage /\ post.outcome = "open failed")
        /\ ~HasRef(post.after, post.channel, post.key)

\* a channel post and a direct message were both skipped
C6_Witness ==
    /\ \E post \in SkippablePosts : post.outcome = "skip" /\ post.directMessage
    /\ \E post \in SkippablePosts : post.outcome = "skip" /\ ~post.directMessage

----------------------------------------------------------------------------
\* the activities the provider lists for the pull request of the activity of
\* the invocation being reported
Siblings ==
    {a \in {known[i] : i \in 1..Len(known)} :
        /\ a.Owner = last.activity.Owner
        /\ a.Repo = last.activity.Repo
        /\ getPullRequestNumber(a).val = getPullRequestNumber(last.activity).val}

\* the activity is of a build older than one of its siblings
Stale == \E a \in Siblings : BuildNumber(last.activity) < BuildNumber(a)

\* the sibling no sibling is older than
Anchors == {a \in Siblings : \A b \in Siblings : BuildNumber(a) <= BuildNumber(b)}

\* the rules of the flow of the invocation being reported
Rules == IF last.flow = "pipeline" THEN config.Pipelines
         ELSE IF last.flow = "review" THEN config.PullRequests ELSE <<>>

\* the rule's eligibility holds for the activity and the pull request of the
\* invocation being reported
Eligible(cfg) ==
    /\ OrgsAllow(last.activity, cfg.Orgs)
    /\ IsPullRequest(last.activity) => IgnoredLabels(last.env.pr, cfg.IgnoreLabels) = {}
    /\ last.flow = "review" => IsPullRequest(last.activity) /\ ~Stale

\* postMessage was called for the channel of the rule
PostedToChannelOf(cfg) ==
    \E post \in Posts : ~post.directMessage /\ post.channel = channelName(cfg.Channel)

SinkCalls == SelectSeq(last.trace, LAMBDA c : c.op \in {"open", "send"})

(* C7: in the review flow, a named activity of a pull request whose build    *)
(* number is lower than the highest build number of its siblings is         *)
(* dropped: no call but the                                                 *)
(* eligibility gate's and the sibling query precedes the test, so there is  *)
(* no sink call, the store is unchanged and no error is returned but that   *)
(* of one of these two providers; an activity whose build number is greater *)
(* or equal is processed: unless a collaborator fails, every eligible rule  *)
(* with a channel has its message rendered and handed to postMessage.       *)
C7_StaleDropped ==
    (last.flow = "review" /\ last.activity.Name # "" /\ IsPullRequest(last.activity)) =>
        /\ Stale =>
              /\ \A i \in 1..Len(last.trace) :
                    last.trace[i].op \in {"getPullRequest", "activities"}
              /\ Posts = {}
              /\ Timestamps = last.before
              /\ last.err # "" =>
                    /\ last.err = "provider"
                    /\ last.env.fail.op \in {"getPullRequest", "activities"}
        /\ (~Stale /\ last.env.fail = NoFailure) =>
              /\ last.err = ""
              /\ \A i \in 1..Len(Rules) :
                    (Eligible(Rules[i]) /\ Rules[i].Channel # <<>>)
                        => PostedToChannelOf(Rules[i])

\* a stale activity went through the review flow, under an eligible rule with
\* a channel, with no failure and with references in the store
C7_Witness ==
    /\ last.flow = "review"
    /\ Stale
    /\ last.err = ""
    /\ last.env.fail = NoFailure
    /\ last.before # <<>>
    /\ \E i \in 1..Len(Rules) :
          /\ OrgsAllow(last.activity, Rules[i].Orgs)
          /\ IgnoredLabels(last.env.pr, Rules[i].IgnoreLabels) = {}
          /\ Rules[i].Channel # <<>>

\* the pull request of the invocation being reported is merged or closed
Terminal == last.env.pr.Merged = "true" \/ last.env.pr.Closed

(* C8: in the review flow, under every status policy, when the pull request *)
(* is merged or closed a missing reference leads to no created message, and *)
(* an existing reference to an update showing the terminal status.          *)
C8_TerminalNeverCreates ==
    (last.flow = "review" /\ Terminal) =>
        \A post \in Posts :
            /\ post.ref = NilRef => post.outcome # "create"
            /\ (post.ref # NilRef /\ post.outcome # "send failed") =>
                  /\ post.outcome = "update"
                  /\ post.attachments.build.kind \in {"Merged", "Closed"}

(* C9: an error from rendering or from the sink while one rule is processed *)
(* aborts that rule only: every rule whose eligibility holds and that has a *)
(* channel still has its message handed to postMessage.                     *)
C9_LaterRulesStillRun ==
    last.err \in {"sink", "render"} =>
        \A i \in 1..Len(Rules) :
            (Eligible(Rules[i]) /\ Rules[i].Channel # <<>>) => PostedToChannelOf(Rules[i])

(* C10: in the review flow, every post to a channel is looked up and        *)
(* recorded under the name of the anchor, the sibling with the lowest build *)
(* number, whichever build triggers it; so the sink has created at most one *)
(* message for the channel and the anchor, and a post that finds the        *)
(* reference updates that message.                                          *)
C10_KeyedByAnchor ==
    (last.flow = "review" /\ Siblings # {}) =>
        \A post \in Posts :
            ~post.directMessage =>
                /\ \E a \in Anchors : post.key = a.Name
                /\ post.ref = Lookup(post.before, post.channel, post.key)
                /\ post.outcome \in {"create", "update"} =>
                      Lookup(post.after, post.channel, post.key) = post.reply
                /\ Cardinality(MessagesOf(post.channel, post.key)) <= 1
                /\ post.outcome = "update" =>
                      \E m \in MessagesOf(post.channel, post.key) :
                          /\ m.Timestamp = post.reply.Timestamp
                          /\ MessageCalls(post)[1].update = m.Timestamp

\* the second build of the pull request updated the message stored under the
\* name of the first
C10_Witness ==
    /\ last.flow = "review"
    /\ Cardinality(Siblings) = 2
    /\ \E post \in Posts :
          /\ ~post.directMessage
          /\ post.outcome = "update"
          /\ post.key # last.activity.Name
          /\ \A a \in Siblings : BuildNumber(a) <= BuildNumber(last.activity)

----------------------------------------------------------------------------
\* the chat identities of the requested reviewers of the pull request that
\* resolve to one
ResolvedReviewers ==
    {last.env.slackId[last.env.pr.RequestedReviewers[i]] :
        i \in 1..Len(last.env.pr.RequestedReviewers)} \ {<<>>}

(* C11: in the review flow, under a rule with the direct-message flag and   *)
(* the reviewer-notify flag both set, for an activity that is not stale,    *)
(* every requested reviewer that resolves to a chat identity gets a direct  *)
(* message, created or updated, keyed by the anchor activity's name.        *)
C11_ReviewersMessaged ==
    (/\ last.flow = "review"
     /\ last.activity.Name # ""
     /\ last.env.fail = NoFailure
     /\ \E i \in 1..Len(Rules) :
           Rules[i].DirectMessage /\ Rules[i].NotifyReviewers /\ Eligible(Rules[i]))
    => \A id \in ResolvedReviewers :
          \E post \in Posts :
              /\ post.directMessage
              /\ post.channel = id
              /\ post.outcome \in {"create", "update"}
              /\ Siblings # {} => \E a \in Anchors : post.key = a.Name

(* C12: PipelineMessage and ReviewRequestMessage on an activity with an      *)
(* empty name return an error at once: no provider and no sink has been     *)
(* called, no postMessage has run and the store is as it was.               *)
C12_EmptyNameRejected ==
    (last.flow \in {"pipeline", "review"} /\ last.activity.Name = "") =>
        /\ last.err = "name"
        /\ last.trace = <<>>
        /\ Posts = {}
        /\ Timestamps = last.before

\* an unnamed activity was rejected by the review flow, with references in
\* the store and a configuration whose rules would otherwise take it
C12_Witness ==
    /\ last.flow = "review"
    /\ last.activity.Name = ""
    /\ last.err = "name"
    /\ last.before # <<>>
    /\ last.env.fail = NoFailure
    /\ \E i \in 1..Len(Rules) : Rules[i].Channel # <<>> /\ Eligible(Rules[i])

----------------------------------------------------------------------------
\* the place of an activity in the provider's answer
Retrieved(a) == CHOOSE i \in 1..Len(known) : known[i] = a

(* C13: findPipelineActivities, for a non-empty answer of the provider in    *)
(* any order, returns as anchor a sibling of the smallest build number and  *)
(* as latest one of the largest, compared as integers, and siblings of      *)
(* equal build numbers are in the order the provider gave them.             *)
C13_AnchorLatestStable ==
    last.flow = "find" =>
        /\ \A i \in 1..Len(known) :
              /\ BuildNumber(last.oldest) <= BuildNumber(known[i])
              /\ BuildNumber(known[i]) <= BuildNumber(last.latest)
        /\ \A i, j \in 1..Len(last.all) :
              (i < j /\ BuildNumber(last.all[i]) = BuildNumber(last.all[j]))
                  => Retrieved(last.all[i]) < Retrieved(last.all[j])

----------------------------------------------------------------------------
\* the labels of the pull request the message is made for
Labels == {last.env.pr.Labels[i] : i \in 1..Len(last.env.pr.Labels)}

\* the pull request carries neither of the labels that block it
Unblocked == Labels \cap {"do-not-merge/hold", "needs-ok-to-test"} = {}

(* C14, as claimed: for a pull request carrying neither do-not-merge/hold    *)
(* nor needs-ok-to-test, the review status is lgtm if the repository is     *)
(* configured for lgtm and the pull request carries lgtm, approved in every *)
(* other case where it carries approved, and not-approved otherwise.        *)
C14_ApprovedInEveryOtherCase ==
    (last.flow = "message" /\ Unblocked) =>
        last.review.kind =
            IF last.env.lgtmRepo /\ "lgtm" \in Labels THEN "LGTM"
            ELSE IF "approved" \in Labels THEN "Approved"
            ELSE "NotApproved"

(* C14, amended: for a pull request carrying neither do-not-merge/hold nor   *)
(* needs-ok-to-test, the review status is, in a repository configured for   *)
(* lgtm, lgtm if the pull request carries lgtm and not-approved otherwise,  *)
(* whether it carries approved or not; in any other repository, approved if *)
(* it carries approved and not-approved otherwise.                          *)
C14_ApprovedOutsideLgtmRepos ==
    (last.flow = "message" /\ Unblocked) =>
        last.review.kind =
            IF last.env.lgtmRepo
            THEN IF "lgtm" \in Labels THEN "LGTM" ELSE "NotApproved"
            ELSE IF "approved" \in Labels THEN "Approved" ELSE "NotApproved"

\* an approved pull request without lgtm in a repository configured for lgtm
C14_Witness ==
    /\ last.flow = "message"
    /\ Unblocked
    /\ last.env.lgtmRepo
    /\ "approved" \in Labels
    /\ "lgtm" \notin Labels
    /\ last.review.kind = "NotApproved"

(* C15: a pull request carrying do-not-merge/hold resolves to hold whatever  *)
(* approved or lgtm labels it carries, and one carrying needs-ok-to-test    *)
(* resolves to needs-ok-to-test whatever other labels it carries, hold      *)
(* included, in whatever order the labels are given.                        *)
C15_HoldAndNeedsOkToTestOverride ==
    last.flow = "message" =>
        /\ "needs-ok-to-test" \in Labels => last.review.kind = "NeedsOkToTest"
        /\ ("do-not-merge/hold" \in Labels /\ "needs-ok-to-test" \notin Labels)
              => last.review.kind = "Hold"

\* needs-ok-to-test given before hold and approved
C15_Witness ==
    /\ last.flow = "message"
    /\ last.env.pr.Labels = <<"needs-ok-to-test", "do-not-merge/hold", "approved">>
    /\ ~last.env.lgtmRepo
    /\ last.review.kind = "NeedsOkToTest"

\* the kind of build status the claim gives the pull request and the activity
BuildKind ==
    IF last.env.pr.Merged = "true" THEN "Merged"
    ELSE IF last.env.pr.Closed THEN "Closed"
    ELSE IF last.activity.Status = "pending" THEN "Pending"
    ELSE IF last.activity.Status = "running" THEN "Running"
    ELSE IF last.activity.Status = "success" THEN "Succeeded"
    ELSE IF last.activity.Status = "failure" THEN "Failed"
    ELSE IF last.activity.Status = "aborted" THEN "Aborted"
    ELSE "Unknown"

(* C16: the build status of the review message is merged if the pull         *)
(* request's merged flag is set, else closed if it is closed, else the      *)
(* activity's state (pending, running, succeeded, failed, aborted), else    *)
(* unknown; it is never nil, and it is the override of its kind when the    *)
(* configuration defines one and the default table's entry otherwise.       *)
C16_BuildStatusResolved ==
    last.flow = "message" =>
        /\ last.build # NilStatus
        /\ last.build = last.buildStatus
        /\ last.build.kind = BuildKind
        /\ last.build.from = IF BuildKind \in config.Statuses THEN "override"
                             ELSE "default"

\* a closed pull request, not merged, of a failed build, under an override
\* of the closed status
C16_Witness ==
    /\ last.flow = "message"
    /\ last.env.pr.Merged = "false"
    /\ last.env.pr.Closed
    /\ last.activity.Status = "failure"
    /\ config.Statuses = {"Closed", "Running", "Hold"}
    /\ last.build = [kind |-> "Closed", from |-> "override"]

----------------------------------------------------------------------------
\* a non-empty string of decimal digits
AllDigits(s) ==
    s # <<>> /\ \A i \in 1..Len(s) :
                    s[i] \in {"0", "1", "2", "3", "4", "5", "6", "7", "8", "9"}

\* the string starts with pr- in some letter case
StartsWithPr(s) ==
    Len(s) >= 3 /\ s[1] \in {"p", "P"} /\ s[2] \in {"r", "R"} /\ s[3] = "-"

\* what follows the first three characters
AfterPr(s) == SubSeq(s, 4, Len(s))

\* the branch of the activity up to its first "/"
BranchHead ==
    LET b   == last.activity.Branch
        cut == {i \in 1..Len(b) : b[i] = "/"}
    IN  IF cut = {} THEN b
        ELSE SubSeq(b, 1, (CHOOSE i \in cut : \A j \in cut : i <= j) - 1)

(* C17, as claimed: for a branch name of the form pr-<digits> in any letter *)
(* case getPullRequestNumber gives the digits as an integer and no error;   *)
(* for every other branch name it gives 0 and no error.                     *)
C17_NumberOrZeroNoError ==
    last.flow = "number" =>
        LET b == last.activity.Branch
        IN  last.prn =
                IF StartsWithPr(b) /\ AllDigits(AfterPr(b))
                THEN [val |-> DigitsValue(AfterPr(b)), err |-> FALSE]
                ELSE [val |-> 0, err |-> FALSE]

(* C17, amended: getPullRequestNumber looks at the branch name up to its     *)
(* first "/".  If that starts with pr- in any letter case and goes on with  *)
(* decimal digits, after one optional sign, it gives the number (negated    *)
(* after "-") and no error; if it starts with pr- and goes on with anything *)
(* else, nothing included, it gives 0 and an error; if it does not start    *)
(* with pr- it gives 0 and no error.                                        *)
C17_NumberOrErrorAfterPrefix ==
    last.flow = "number" =>
        LET h    == BranchHead
            rest == AfterPr(h)
        IN  last.prn =
                IF ~StartsWithPr(h) THEN [val |-> 0, err |-> FALSE]
                ELSE IF AllDigits(rest)
                THEN [val |-> DigitsValue(rest), err |-> FALSE]
                ELSE IF rest # <<>> /\ rest[1] = "+" /\ AllDigits(Tail(rest))
                THEN [val |-> DigitsValue(Tail(rest)), err |-> FALSE]
                ELSE IF rest # <<>> /\ rest[1] = "-" /\ AllDigits(Tail(rest))
                THEN [val |-> 0 - DigitsValue(Tail(rest)), err |-> FALSE]
                ELSE [val |-> 0, err |-> TRUE]

\* a branch in mixed case that starts with pr- and goes on with a letter
C17_Witness ==
    /\ last.flow = "number"
    /\ last.activity.Branch = <<"P", "r", "-", "x">>
    /\ last.prn = [val |-> 0, err |-> TRUE]

----------------------------------------------------------------------------
\* the invocation being reported called nothing and changed nothing
NoOp == last.trace = <<>> /\ Posts = {} /\ Timestamps = last.before

(* C18, as claimed: for every named activity whose branch name is not of    *)
(* the form pr-<digits>, the review flow is a no-op: it calls no provider   *)
(* and no sink, leaves the store unchanged and returns no error.            *)
C18_NotPrShapedNoOp ==
    (/\ last.flow = "review"
     /\ last.activity.Name # ""
     /\ ~(StartsWithPr(BranchHead) /\ AllDigits(AfterPr(BranchHead))))
    => NoOp /\ last.err = ""

(* C18, amended: for every named activity whose branch name does not start  *)
(* with pr-, in any letter case, the review flow is a no-op: it calls no    *)
(* provider and no sink, leaves the store unchanged and returns no error,   *)
(* whatever review rules are configured; for one whose branch name starts   *)
(* with pr- and goes on with no number it calls nothing and leaves the      *)
(* store unchanged as well, and returns an error.                           *)
C18_NoPrPrefixNoOp ==
    (last.flow = "review" /\ last.activity.Name # "") =>
        /\ ~StartsWithPr(BranchHead) => NoOp /\ last.err = ""
        /\ (StartsWithPr(BranchHead) /\ getPullRequestNumber(last.activity).err)
              => NoOp /\ last.err = "prn"

\* a release build went through the review flow under rules that take every
\* repository, with references in the store
C18_Witness ==
    /\ last.flow = "review"
    /\ last.activity.Branch = MasterBranch
    /\ last.before # <<>>
    /\ last.err = ""
    /\ \E i \in 1..Len(Rules) : Rules[i].Orgs = <<>> /\ Rules[i].IgnoreLabels = <<>>

----------------------------------------------------------------------------
\* the allow-list is empty, or one of its entries names the owner of the
\* activity and lists no repository or the repository of the activity
AllowListed(activity, orgs) ==
    \/ orgs = <<>>
    \/ \E i \in 1..Len(orgs) :
          /\ orgs[i].Name = activity.Owner
          /\ \/ orgs[i].Repos = <<>>
             \/ \E j \in 1..Len(orgs[i].Repos) : orgs[i].Repos[j] = activity.Repo

(* C19: an activity passes the allow-list if and only if the list is empty  *)
(* or one of its entries has the activity's owner as name and a repository  *)
(* list that is empty or contains the activity's repository.  One that      *)
(* fails it is rejected without error and without the pull request being    *)
(* fetched; one that passes goes on to the pull request, which is fetched   *)
(* when the activity is of one, and is enabled when nothing else is tested. *)
C19_AllowList ==
    last.flow = "gate" =>
        IF AllowListed(last.activity, last.orgs)
        THEN /\ IsPullRequest(last.activity) =>
                    /\ Len(last.trace) = 1
                    /\ last.trace[1].op = "getPullRequest"
             /\ (last.ignoreLabels = <<>> /\ last.env.fail.op # "getPullRequest")
                    => last.enabled /\ last.err = ""
        ELSE /\ ~last.enabled
             /\ last.err = ""
             /\ last.pr = NilPR
             /\ last.trace = <<>>

\* an activity of a pull request let through by the second entry of the
\* allow-list, which lists its repository after another one
C19_Witness ==
    /\ last.flow = "gate"
    /\ last.orgs = <<[Name |-> "other", Repos |-> <<"widgets">>],
                     [Name |-> "acme", Repos |-> <<"tools", "widgets">>]>>
    /\ last.activity.Owner = "acme"
    /\ last.activity.Repo = "widgets"
    /\ IsPullRequest(last.activity)
    /\ last.enabled

----------------------------------------------------------------------------
\* a label of the pull request of the invocation being reported is in the
\* ignore list of the rule
Suppressed(cfg) ==
    \E i \in 1..Len(last.env.pr.Labels), j \in 1..Len(cfg.IgnoreLabels) :
        last.env.pr.Labels[i] = cfg.IgnoreLabels[j]

(* C20: with no collaborator failing, a named activity of a pull request    *)
(* that passes the allow-list of a rule is suppressed for that rule if and  *)
(* only if a label of its pull request is in the rule's ignore list: the    *)
(* invocation returns no error, nothing is posted to the channel of a rule  *)
(* that suppresses it, and every other rule whose allow-list it passes has  *)
(* its message handed to postMessage (in the review flow, unless the        *)
(* activity is stale).                                                      *)
C20_IgnoreLabelsSuppress ==
    (/\ last.flow \in {"pipeline", "review"}
     /\ last.activity.Name # ""
     /\ IsPullRequest(last.activity)
     /\ last.env.fail = NoFailure)
    => /\ last.err = ""
       /\ \A i \in 1..Len(Rules) :
             (Rules[i].Channel # <<>> /\ AllowListed(last.activity, Rules[i].Orgs)) =>
                 IF Suppressed(Rules[i]) THEN ~PostedToChannelOf(Rules[i])
                 ELSE (last.flow = "review" /\ Stale) \/ PostedToChannelOf(Rules[i])

\* a pull request labelled wip went through the pipeline flow: posted under
\* the first rule, suppressed under the second, which ignores the label
C20_Witness ==
    /\ last.flow = "pipeline"
    /\ IsPullRequest(last.activity)
    /\ last.env.fail = NoFailure
    /\ Len(Rules) = 2
    /\ ~Suppressed(Rules[1]) /\ PostedToChannelOf(Rules[1])
    /\ AllowListed(last.activity, Rules[2].Orgs)
    /\ Suppressed(Rules[2]) /\ ~PostedToChannelOf(Rules[2])

----------------------------------------------------------------------------
\* the postMessage calls for a direct message
DirectPosts == {post \in Posts : post.directMessage}

(* C21: the reference of a direct message is looked up and recorded under   *)
(* the recipient's user id, never under the id of the conversation the sink *)
(* opened: a direct message that was sent is stored under the user id, the  *)
(* store has no entry for a conversation, and a later direct message for    *)
(* the same recipient and key finds the reference and updates the one       *)
(* message instead of creating another.                                     *)
C21_DirectKeyedByRecipient ==
    /\ \A d \in DOMAIN Timestamps : ~HasPrefix(d, <<"D">>)
    /\ \A post \in DirectPosts :
          /\ post.ref = Lookup(post.before, post.channel, post.key)
          /\ post.outcome \in {"create", "update"} =>
                /\ post.reply.ChannelID = ConversationID(post.channel)
                /\ Lookup(post.after, post.channel, post.key) = post.reply
                /\ DOMAIN post.after = DOMAIN post.before \cup {post.channel}
          /\ HasRef(post.before, post.channel, post.key) => post.outcome # "create"
          /\ Cardinality(MessagesOf(post.channel, post.key)) <= 1

\* a second direct message to the same recipient for the same key updated
\* the message of the first, stored under the user id with the id of the
\* conversation
C21_Witness ==
    \E post \in DirectPosts :
        /\ post.outcome = "update"
        /\ post.ref.ChannelID = ConversationID(post.channel)
        /\ post.ref.ChannelID # post.channel
        /\ post.reply.Timestamp = post.ref.Timestamp

----------------------------------------------------------------------------
(* C22: the colour of the pipeline message is a function of the activity's  *)
(* overall build status alone: danger for failed, good for succeeded,       *)
(* info-blue for running or pending, none for any other, whatever stages    *)
(* and stage statuses the activity carries.                                 *)
C22_ColourOfBuildStatus ==
    (last.flow = "render" /\ last.err = "") =>
        last.attachments.Color =
            IF last.activity.Status = "failure" THEN "danger"
            ELSE IF last.activity.Status = "success" THEN "good"
            ELSE IF last.activity.Status \in {"running", "pending"} THEN "#3AA3E3"
            ELSE ""

\* the latest of the pull request's update time, the activity's start time
\* and its completion time, -1 when there is none
LatestTime ==
    Max2(Max2(IF last.pr.nil THEN -1 ELSE last.pr.UpdatedAt, last.activity.StartTime),
         last.activity.CompletionTime)

(* C23: the timestamp of the pipeline message is the latest of the pull     *)
(* request's update time, the activity's start time and the activity's      *)
(* completion time, and the message is creatable if and only if that        *)
(* timestamp is not older than 24 hours before the current time.            *)
C23_LatestOfThreeTimes ==
    (last.flow = "render" /\ last.err = "") =>
        /\ last.attachments.Ts = (IF LatestTime > 0 THEN LatestTime ELSE -1)
        /\ last.createIfMissing <=> (LatestTime >= last.now - DayHours)

----------------------------------------------------------------------------
\* the provider lists no activity for the pull request of the named
\* activity the review flow was invoked with
NoSiblings ==
    /\ last.flow = "review"
    /\ last.activity.Name # ""
    /\ IsPullRequest(last.activity)
    /\ Siblings = {}

(* C24: in the review flow, when the sibling query returns no activity for  *)
(* the pull request, no error is surfaced unless a collaborator fails, the  *)
(* name of the triggering activity is the store key of every post, and      *)
(* under every eligible rule with a channel the review message is rendered  *)
(* and posted under the normal decision: an update where the store holds a  *)
(* reference, else a creation if createIfMissing, else nothing.             *)
C24_NoSiblingsFallback ==
    NoSiblings =>
        /\ last.err # "" => last.env.fail # NoFailure
        /\ \A post \in Posts :
              /\ post.key = last.activity.Name
              /\ post.messageType = "pr"
              /\ post.attachments.kind = "pr"
        /\ last.env.fail = NoFailure =>
              /\ \A i \in 1..Len(Rules) :
                    (Eligible(Rules[i]) /\ Rules[i].Channel # <<>>)
                        => PostedToChannelOf(Rules[i])
              /\ \A post \in Posts :
                    post.outcome =
                        IF HasRef(post.before, post.channel, post.key) THEN "update"
                        ELSE IF post.createIfMissing THEN "create" ELSE "skip"

\* the review flow created the message of an activity with no sibling,
\* under its own name
C24_Witness ==
    /\ NoSiblings
    /\ last.err = ""
    /\ \E post \in Posts :
          /\ ~post.directMessage
          /\ post.key = last.activity.Name
          /\ post.outcome = "create"

----------------------------------------------------------------------------
(* C25: in the pipeline flow, with no collaborator failing, a named         *)
(* activity whose branch is not of a pull request is eligible under every   *)
(* rule whose allow-list it passes, whatever the rule's ignore list: no     *)
(* pull request is fetched, no error is returned, and its message is        *)
(* rendered and handed to postMessage for the channel of each such rule.    *)
C25_NotPullRequestEligible ==
    (/\ last.flow = "pipeline"
     /\ last.activity.Name # ""
     /\ ~StartsWithPr(BranchHead)
     /\ last.env.fail = NoFailure)
    => /\ last.err = ""
       /\ \A i \in 1..Len(last.trace) : last.trace[i].op # "getPullRequest"
       /\ \A i \in 1..Len(Rules) :
             (Rules[i].Channel # <<>> /\ AllowListed(last.activity, Rules[i].Orgs))
                 => PostedToChannelOf(Rules[i])

----------------------------------------------------------------------------
\* the message of the sink a post updated: the one created with the
\* reference the post found in the store
UpdatedMessages(post) ==
    {msg \in messages : /\ msg.ChannelID = post.ref.ChannelID
                        /\ msg.Timestamp = post.ref.Timestamp}

(* C26: pipeline messages and review messages sent to the same destination  *)
(* never share a stored reference: every send that updates a message        *)
(* updates one created by its own flow, so that the review flow never       *)
(* updates a message the pipeline flow created, nor the pipeline flow one   *)
(* the review flow created.                                                 *)
C26_FlowsKeepOwnMessages ==
    \A post \in Posts :
        post.outcome = "update" =>
            \A msg \in UpdatedMessages(post) : msg.messageType = post.messageType

====
